---- MODULE Spec2Model ----
\* nano-opencode (Rust): the agent loop of src/implementations/rust/src/main.rs,
\* its tool executor `run`, and the file system the tools act on.
\*
\* Conventions
\*   Text          a Rust String: a sequence of characters, one token per char.
\*                 The token "U+00E9" is a character whose UTF-8 encoding has
\*                 two bytes, "U+FFFD" (the replacement character) has
\*                 three; every other token is one byte.
\*   bytes         the standard output of a command: a sequence whose elements
\*                 are the characters it encodes, or "0xFF", a byte that is
\*                 not valid UTF-8.
\*   Option<T>     None == <<>>, Some(v) == <<v>>.
\*   serde Value   JStr(s) == <<"str", s>>, JNum(n) == <<"num", n>>; a JSON
\*                 object is a function from its keys to values.
\*   type, name, id, role, stop_reason are only ever compared with literals or
\*   copied, so they are TLA+ strings.
EXTENDS Integers, Sequences, FiniteSets, TLC

VARIABLES
    pc,        \* position of `agent`: AWAITING_MODEL, EXECUTING_TOOLS, DONE, FAILED, PANICKED;
               \* of `main` around it: MAIN, EXITED; of a single call of `run`:
               \* RUN_READY, RUN_RETURNED
    messages,  \* agent: `messages`, the transcript
    res,       \* agent: `res`, the response being processed
    idx,       \* position of the iterator over res.content (line 91)
    results,   \* the Vec<Value> collected so far by the iterator (line 91..97)
    outcome,   \* what `agent` returned: None, Some(Ok text) or Some(Err text)
    fs,        \* the files of the working directory
    sent,      \* history: the `messages` argument of every `call`, in order
    replies,   \* history: what every `call` returned, in order
    invoked,   \* history: the (name, input) of every `run`, in order
    cycles,    \* history: the number of result bundles pushed (line 99)
    proc       \* the process: its arguments and environment, what main wrote to
               \* standard error, and its exit status once it has ended

vars == <<pc, messages, res, idx, results, outcome, fs, sent, replies, invoked, cycles, proc>>

-----------------------------------------------------------------------------
\* Bounds of the model

\* Requests the loop makes before the model stops following it.
MaxRequests == 2
\* Content blocks the service sends over one run, all responses together.
MaxBlocks == 3

-----------------------------------------------------------------------------
\* Values

None == <<>>
Some(v) == <<v>>
JStr(s) == <<"str", s>>
JNum(n) == <<"num", n>>

Min(a, b) == IF a < b THEN a ELSE b

OkMarker ==
    <<"O", "K">>
ErrorPrefix ==
    <<"E", "r", "r", "o", "r", ":", " ">>
NotFoundMarker ==
    <<"o", "l", "d", "_", "s", "t", "r", "i", "n", "g", " ", "n", "o", "t", " ", "f", "o", "u", "n", "d">>
UnknownTool ==
    <<"U", "n", "k", "n", "o", "w", "n", " ", "t", "o", "o", "l">>
ENOENT ==
    <<"N", "o", " ", "s", "u", "c", "h", " ", "f", "i", "l", "e", " ", "o", "r", " ", "d", "i", "r", "e", "c", "t", "o", "r", "y", " ", "(", "o", "s", " ", "e", "r", "r", "o", "r", " ", "2", ")">>
EISDIR ==
    <<"I", "s", " ", "a", " ", "d", "i", "r", "e", "c", "t", "o", "r", "y", " ", "(", "o", "s", " ", "e", "r", "r", "o", "r", " ", "2", "1", ")">>
ENOTDIR ==
    <<"N", "o", "t", " ", "a", " ", "d", "i", "r", "e", "c", "t", "o", "r", "y", " ", "(", "o", "s", " ", "e", "r", "r", "o", "r", " ", "2", "0", ")">>
ApiErrorPrefix ==
    <<"A", "P", "I", " ", "e", "r", "r", "o", "r", ":", " ">>
ParseErrorPrefix ==
    <<"P", "a", "r", "s", "e", " ", "e", "r", "r", "o", "r", ":", " ">>

\* Number of bytes of the UTF-8 encoding of one character.
Utf8Len(c) == IF c = "U+00E9" THEN 2 ELSE IF c = "U+FFFD" THEN 3 ELSE 1

\* String::from_utf8_lossy: every invalid byte becomes U+FFFD, valid text is kept.
Utf8Lossy(bytes) == [i \in DOMAIN bytes |-> IF bytes[i] = "0xFF" THEN "U+FFFD" ELSE bytes[i]]

\* str::len: the length of a String in bytes.
RECURSIVE ByteLen(_)
ByteLen(s) == IF s = <<>> THEN 0 ELSE Utf8Len(Head(s)) + ByteLen(Tail(s))

\* str::is_char_boundary: byte offset n is the start of a character or the end.
IsCharBoundary(s, n) == \E k \in 0..Len(s) : ByteLen(SubSeq(s, 1, k)) = n

\* Mutation of Take: the whole string, whatever n is.
TakeAll(s, n) == SubSeq(s, 1, Len(s))

\* s.chars().take(n).collect()
Take(s, n) == SubSeq(s, 1, Min(n, Len(s)))

\* Mutation of Contains: the empty pattern is contained in nothing.
ContainsNonEmpty(s, pat) ==
    /\ pat # <<>>
    /\ \E i \in 1..(Len(s) - Len(pat) + 1) : SubSeq(s, i, i + Len(pat) - 1) = pat

\* str::contains with a &str pattern.
Contains(s, pat) ==
    \E i \in 1..(Len(s) - Len(pat) + 1) : SubSeq(s, i, i + Len(pat) - 1) = pat

\* Mutation of FirstMatch: the rightmost occurrence instead of the leftmost.
LastMatch(s, pat) ==
    CHOOSE i \in 1..(Len(s) - Len(pat) + 1) :
        /\ SubSeq(s, i, i + Len(pat) - 1) = pat
        /\ \A j \in (i + 1)..(Len(s) - Len(pat) + 1) : SubSeq(s, j, j + Len(pat) - 1) # pat

\* Start of the leftmost occurrence of pat in s (1-based); 1 for the empty pattern.
FirstMatch(s, pat) ==
    CHOOSE i \in 1..(Len(s) - Len(pat) + 1) :
        /\ SubSeq(s, i, i + Len(pat) - 1) = pat
        /\ \A j \in 1..(i - 1) : SubSeq(s, j, j + Len(pat) - 1) # pat

\* str::replacen(old, new, 1)
Replacen1(s, old, new) ==
    IF Contains(s, old)
    THEN LET i == FirstMatch(s, old)
         IN SubSeq(s, 1, i - 1) \o new \o SubSeq(s, i + Len(old), Len(s))
    ELSE s

\* [String]::join(sep)
RECURSIVE Join(_, _)
Join(parts, sep) ==
    IF parts = <<>> THEN <<>>
    ELSE IF Len(parts) = 1 THEN parts[1]
    ELSE parts[1] \o sep \o Join(Tail(parts), sep)

\* n copies of the character c.
Rep(c, n) == [i \in 1..n |-> c]

-----------------------------------------------------------------------------
\* The working directory: two regular files "f" and "g" that may or may not
\* exist, the directory "." itself, and the empty path.

PathF == <<"f">>
PathG == <<"g">>
Dot == <<".">>
EmptyPath == <<>>
Files == {PathF, PathG}

\* std::fs::read_to_string; [ok, v]: the content, or the cause of the failure.
ReadToString(f, path) ==
    IF path \in Files /\ f[path] # None THEN [ok |-> TRUE, v |-> f[path][1]]
    ELSE IF path = Dot THEN [ok |-> FALSE, v |-> EISDIR]
    ELSE [ok |-> FALSE, v |-> ENOENT]

\* std::fs::write; [ok, v, fs]: the file system afterwards, and the cause of a failure.
FsWrite(f, path, content) ==
    IF path \in Files
    THEN [ok |-> TRUE, v |-> <<>>, fs |-> [f EXCEPT ![path] = Some(content)]]
    ELSE IF path = Dot THEN [ok |-> FALSE, v |-> EISDIR, fs |-> f]
    ELSE [ok |-> FALSE, v |-> ENOENT, fs |-> f]

\* All orders in which a set can be listed.
Perms(S) ==
    {p \in [1..Cardinality(S) -> S] : \A i, j \in 1..Cardinality(S) : p[i] = p[j] => i = j}

\* std::fs::read_dir followed by the formatting of line 57: one "<d|-> <name>"
\* line per entry, in an order the file system chooses.
ReadDirLines(f, path) ==
    IF path = Dot
    THEN {[ok |-> TRUE, v |-> [i \in DOMAIN p |-> <<"-", " ">> \o p[i]]] :
              p \in Perms({q \in Files : f[q] # None})}
    ELSE IF path \in Files /\ f[path] # None THEN {[ok |-> FALSE, v |-> ENOTDIR]}
    ELSE {[ok |-> FALSE, v |-> ENOENT]}

\* `sh -c command`: standard output and the file system afterwards. Modelled
\* commands: "cat f", "cat g", "rm f" and "printf '\377'" (one byte that is
\* not valid UTF-8); any other command line writes nothing to standard output
\* (the shell's complaint goes to standard error).
CmdCatF == <<"c", "a", "t", " ", "f">>
CmdCatG == <<"c", "a", "t", " ", "g">>
CmdRmF == <<"r", "m", " ", "f">>
CmdBadByte == <<"p", "r", "i", "n", "t", "f", " ", "'", "\\", "3", "7", "7", "'">>
Sh(f, command) ==
    IF command = CmdCatF
    THEN [stdout |-> IF f[PathF] # None THEN f[PathF][1] ELSE <<>>, fs |-> f]
    ELSE IF command = CmdCatG
    THEN [stdout |-> IF f[PathG] # None THEN f[PathG][1] ELSE <<>>, fs |-> f]
    ELSE IF command = CmdBadByte
    THEN [stdout |-> <<"0xFF">>, fs |-> f]
    ELSE IF command = CmdRmF
    THEN [stdout |-> <<>>, fs |-> [f EXCEPT ![PathF] = None]]
    ELSE [stdout |-> <<>>, fs |-> f]

-----------------------------------------------------------------------------
\* Tool executor (fn run, lines 29..63)

BashCap == 50000

\* input[key].as_str().unwrap_or(default): the string under key, or the
\* default when the key is missing or its value is not a string.
StrArg(input, key, default) ==
    IF key \in DOMAIN input /\ input[key][1] = "str" THEN input[key][2] ELSE default

\* Result<_, io::Error>::unwrap_or_else(|e| format!("Error: {}", e))
ErrorText(cause) == ErrorPrefix \o cause

RunReadFile(input, f) ==
    LET o == ReadToString(f, StrArg(input, "path", Dot))
    IN {[r |-> IF o.ok THEN o.v ELSE ErrorText(o.v), fs |-> f]}

RunWriteFile(input, f) ==
    LET w == FsWrite(f, StrArg(input, "path", EmptyPath), StrArg(input, "content", <<>>))
    IN {[r |-> IF w.ok THEN OkMarker ELSE ErrorText(w.v), fs |-> w.fs]}

\* Mutation of RunEditFile: no test that old_string occurs before writing.
RunEditFileNoCheck(input, f) ==
    LET path == StrArg(input, "path", EmptyPath)
        o == ReadToString(f, path)
        old == StrArg(input, "old_string", <<>>)
        new == StrArg(input, "new_string", <<>>)
        w == FsWrite(f, path, Replacen1(o.v, old, new))
    IN IF o.ok
       THEN {[r |-> IF w.ok THEN OkMarker ELSE ErrorText(w.v), fs |-> w.fs]}
       ELSE {[r |-> ErrorText(o.v), fs |-> f]}

RunEditFile(input, f) ==
    LET path == StrArg(input, "path", EmptyPath)
        o == ReadToString(f, path)
        old == StrArg(input, "old_string", <<>>)
        new == StrArg(input, "new_string", <<>>)
        w == FsWrite(f, path, Replacen1(o.v, old, new))
    IN IF o.ok
       THEN IF Contains(o.v, old)
            THEN {[r |-> IF w.ok THEN OkMarker ELSE ErrorText(w.v), fs |-> w.fs]}
            ELSE {[r |-> NotFoundMarker, fs |-> f]}
       ELSE {[r |-> ErrorText(o.v), fs |-> f]}

RunBash(input, f) ==
    LET o == Sh(f, StrArg(input, "command", <<>>))
    IN {[r |-> Take(Utf8Lossy(o.stdout), BashCap), fs |-> o.fs]}

RunListDir(input, f) ==
    {[r |-> IF o.ok THEN Join(o.v, <<"\n">>) ELSE ErrorText(o.v), fs |-> f] :
        o \in ReadDirLines(f, StrArg(input, "path", Dot))}

\* The tool registry sent with every request (line 69): name and required
\* parameters of each entry, in the order of the source.
TOOLS ==
    << [name |-> "read_file", required |-> <<"path">>],
       [name |-> "write_file", required |-> <<"path", "content">>],
       [name |-> "edit_file", required |-> <<"path", "old_string", "new_string">>],
       [name |-> "bash", required |-> <<"command">>],
       [name |-> "list_dir", required |-> <<"path">>] >>

\* Mutation of run: the list_dir case is missing.
runWithoutListDir(name, input, f) ==
    CASE name = "read_file" -> RunReadFile(input, f)
      [] name = "write_file" -> RunWriteFile(input, f)
      [] name = "edit_file" -> RunEditFile(input, f)
      [] name = "bash" -> RunBash(input, f)
      [] OTHER -> {[r |-> UnknownTool, fs |-> f]}

\* run(name, input): the set of (result text, file system afterwards) pairs
\* the call can produce; more than one only where the file system chooses
\* (the order of a directory listing).
run(name, input, f) ==
    CASE name = "read_file" -> RunReadFile(input, f)
      [] name = "write_file" -> RunWriteFile(input, f)
      [] name = "edit_file" -> RunEditFile(input, f)
      [] name = "bash" -> RunBash(input, f)
      [] name = "list_dir" -> RunListDir(input, f)
      [] OTHER -> {[r |-> UnknownTool, fs |-> f]}

-----------------------------------------------------------------------------
\* Model service: what `call` (lines 65..77) can return

Ok(v) == <<"Ok", v>>
Err(e) == <<"Err", e>>
IsOk(x) == x[1] = "Ok"
IsErr(x) == x[1] = "Err"

\* struct Block (line 27)
Block(type, id, name, input, text) ==
    [type |-> type, id |-> id, name |-> name, input |-> input, text |-> text]

TextA == <<"a">>
TextB == <<"b">>
TextAB == <<"a", "b">>

\* Content of file "g" at start: 99 one-byte characters and one two-byte
\* character, 101 bytes, so that byte offset 100 falls inside the last character.
BigText == Rep("a", 99) \o <<"U+00E9">>

\* text blocks the service may send; the last one has no text field.
TextBlocks ==
    {Block("text", None, None, None, t) : t \in {Some(TextA), Some(TextB), None}}

\* tool_use blocks the service may send: known and unknown tool names,
\* string, non-string and missing arguments, ids present, repeated (t1 twice)
\* and omitted, blocks without name or without input, and a block that
\* carries a text field besides its tool fields.
ToolUseBlocks ==
    { Block("tool_use", Some("t1"), Some("read_file"), Some([path |-> JStr(PathG)]), None),
      Block("tool_use", Some("t1"), Some("nope"), Some(<<>>), Some(TextB)),
      Block("tool_use", Some("t2"), Some("write_file"),
            Some([path |-> JStr(PathF), content |-> JStr(TextAB)]), None),
      Block("tool_use", None, Some("read_file"), Some([path |-> JNum(7)]), None),
      Block("tool_use", Some("t2"), None, Some(<<>>), None),
      Block("tool_use", None, Some("nope"), None, None),
      Block("tool_use", Some("t1"), Some("edit_file"),
            Some([path |-> JStr(PathF), old_string |-> JStr(TextAB), new_string |-> JStr(TextB)]),
            None) }

Blocks == TextBlocks \cup ToolUseBlocks

StopReasons == {"tool_use", "end_turn", "max_tokens"}

\* Block sequences of at most n blocks.
Contents(n) == UNION {[1..k -> Blocks] : k \in 0..n}

\* struct Response (line 24): the responses of at most n blocks.
Responses(n) == {[content |-> c, stop_reason |-> s] : c \in Contents(n), s \in StopReasons}

\* Failures of the exchange: send_json failed (line 74), or the body did not
\* decode into a Response (line 76). The cause text is the library's.
CauseConnect == <<"c", "o", "n", "n", "e", "c", "t">>
CauseEof == <<"E", "O", "F">>
CallErrors == {ApiErrorPrefix \o CauseConnect, ParseErrorPrefix \o CauseEof}

Prompts == {<<"h", "i">>}

\* The process: command-line arguments (after the program name), the
\* environment variables main reads, what it wrote to standard error, and the
\* exit status (None while it runs).
Process(args, env) == [args |-> args, env |-> env, stderr |-> <<>>, exit |-> None]

EnvVars == {"ANTHROPIC_API_KEY", "ANTHROPIC_AUTH_TOKEN"}
KeyText == <<"k">>
EnvWithApiKey == [v \in EnvVars |-> IF v = "ANTHROPIC_API_KEY" THEN Some(KeyText) ELSE None]

-----------------------------------------------------------------------------
\* Agent loop (fn agent, lines 79..101)

PreviewBytes == 100

JArr(items) == <<"arr", items>>

\* struct Message (line 21)
Message(role, content) == [role |-> role, content |-> content]

\* Number of content blocks in the responses received so far.
RECURSIVE BlocksReceived(_)
BlocksReceived(rs) ==
    IF rs = <<>> THEN 0
    ELSE (IF IsOk(Head(rs)) THEN Len(Head(rs)[2].content) ELSE 0) + BlocksReceived(Tail(rs))

\* line 81: the transcript starts as the single user turn carrying the prompt.
InitialMessages(prompt) == <<Message("user", JStr(prompt))>>

\* Mutant of PushAssistant: the turn of a response that ends the conversation
\* is not recorded.
PushAssistantUnlessDone(msgs, r) ==
    IF r.stop_reason = "tool_use" THEN Append(msgs, Message("assistant", JArr(r.content))) ELSE msgs

\* line 85: the assistant turn holding the blocks of the response is pushed
\* whatever the stop_reason. json!(res.content) serialises every field of
\* each Block, absent ones as null, so the turn holds the blocks as decoded.
PushAssistant(msgs, r) == Append(msgs, Message("assistant", JArr(r.content)))

\* Mutant of ToolRequested: only "end_turn" ends the loop.
ToolRequestedUnlessEndTurn(r) == r.stop_reason # "end_turn"

\* line 87: the loop goes on to the tools only for stop_reason "tool_use".
ToolRequested(r) == r.stop_reason = "tool_use"

IsText(b) == b.type = "text"
IsToolUse(b) == b.type = "tool_use"

\* Mutant of FinalText: the text of every block is joined, whatever its type.
FinalTextAnyType(content) ==
    LET HasText(b) == b.text # None
        kept == SelectSeq(content, HasText)
    IN Join([i \in DOMAIN kept |-> kept[i].text[1]], <<>>)

\* line 88: the texts of the text blocks that have one, joined without separator.
FinalText(content) ==
    LET HasText(b) == IsText(b) /\ b.text # None
        kept == SelectSeq(content, HasText)
    IN Join([i \in DOMAIN kept |-> kept[i].text[1]], <<>>)

\* line 91: position of the first tool_use block at or after position i, 0 if none.
NextToolUse(content, i) ==
    IF \E j \in i..Len(content) : IsToolUse(content[j])
    THEN CHOOSE j \in i..Len(content) :
             IsToolUse(content[j]) /\ \A k \in i..(j - 1) : ~IsToolUse(content[k])
    ELSE 0

\* line 95: &r[..r.len().min(100)] panics when the offset is not a char boundary.
PreviewPanics(r) == ~IsCharBoundary(r, Min(ByteLen(r), PreviewBytes))

\* Mutant of ToolResult: the result is keyed by the tool name instead of the id.
ToolResultByName(b, r) == [type |-> "tool_result", tool_use_id |-> b.name, content |-> r]

\* line 96: the tool_result value built for block b and result text r.
ToolResult(b, r) == [type |-> "tool_result", tool_use_id |-> b.id, content |-> r]

Init ==
    /\ pc = "AWAITING_MODEL"
    /\ \E prompt \in Prompts : messages = InitialMessages(prompt)
    /\ res = None
    /\ idx = 1
    /\ results = <<>>
    /\ outcome = None
    /\ fs = [p \in Files |-> IF p = PathG THEN Some(BigText) ELSE Some(<<"a", "b", "a", "b">>)]
    /\ sent = <<>>
    /\ replies = <<>>
    /\ invoked = <<>>
    /\ cycles = 0
    /\ \E prompt \in Prompts : proc = Process(<<prompt>>, EnvWithApiKey)

\* lines 84..89 when `call` returns Ok: push the assistant turn, then either
\* return the final text or start iterating over the tool_use blocks.
CallReturnsOk ==
    /\ pc = "AWAITING_MODEL"
    /\ Len(sent) < MaxRequests
    /\ \E r \in Responses(MaxBlocks - BlocksReceived(replies)) :
        /\ sent' = Append(sent, messages)
        /\ replies' = Append(replies, Ok(r))
        /\ messages' = PushAssistant(messages, r)
        /\ res' = Some(r)
        /\ idx' = 1
        /\ results' = <<>>
        /\ IF ToolRequested(r)
           THEN pc' = "EXECUTING_TOOLS" /\ outcome' = outcome
           ELSE pc' = "DONE" /\ outcome' = Some(Ok(FinalText(r.content)))
    /\ UNCHANGED <<fs, invoked, cycles, proc>>

\* Mutant of CallReturnsErr: the failed request is retried instead of returned.
CallReturnsErrRetry ==
    /\ pc = "AWAITING_MODEL"
    /\ Len(sent) < MaxRequests
    /\ \E e \in CallErrors :
        /\ sent' = Append(sent, messages)
        /\ replies' = Append(replies, Err(e))
    /\ UNCHANGED <<pc, outcome, messages, res, idx, results, fs, invoked, cycles, proc>>

\* line 84 when `call` returns Err: `?` returns it from agent.
CallReturnsErr ==
    /\ pc = "AWAITING_MODEL"
    /\ Len(sent) < MaxRequests
    /\ \E e \in CallErrors :
        /\ sent' = Append(sent, messages)
        /\ replies' = Append(replies, Err(e))
        /\ pc' = "FAILED"
        /\ outcome' = Some(Err(e))
    /\ UNCHANGED <<messages, res, idx, results, fs, invoked, cycles, proc>>

\* Mutant of ToolClosure: every tool runs on the working directory but what
\* it does to the files is not kept for the tools after it.
ToolClosureDiscardsEffects ==
    /\ pc = "EXECUTING_TOOLS"
    /\ NextToolUse(res[1].content, idx) # 0
    /\ LET j == NextToolUse(res[1].content, idx)
           b == res[1].content[j]
       IN IF b.name = None \/ b.input = None
          THEN /\ pc' = "PANICKED"
               /\ UNCHANGED <<idx, results, fs, invoked>>
          ELSE \E o \in run(b.name[1], b.input[1], fs) :
                /\ fs' = fs
                /\ invoked' = Append(invoked, [name |-> b.name[1], input |-> b.input[1]])
                /\ IF PreviewPanics(o.r)
                   THEN pc' = "PANICKED" /\ UNCHANGED <<idx, results>>
                   ELSE /\ pc' = pc
                        /\ idx' = j + 1
                        /\ results' = Append(results, ToolResult(b, o.r))
    /\ UNCHANGED <<messages, res, outcome, sent, replies, cycles, proc>>

\* lines 91..97: the iterator yields the next tool_use block and the closure
\* runs on it: unwrap the name, unwrap the input, run the tool, print the
\* preview, build the tool_result.
ToolClosure ==
    /\ pc = "EXECUTING_TOOLS"
    /\ NextToolUse(res[1].content, idx) # 0
    /\ LET j == NextToolUse(res[1].content, idx)
           b == res[1].content[j]
       IN IF b.name = None \/ b.input = None
          THEN /\ pc' = "PANICKED"
               /\ UNCHANGED <<idx, results, fs, invoked>>
          ELSE \E o \in run(b.name[1], b.input[1], fs) :
                /\ fs' = o.fs
                /\ invoked' = Append(invoked, [name |-> b.name[1], input |-> b.input[1]])
                /\ IF PreviewPanics(o.r)
                   THEN pc' = "PANICKED" /\ UNCHANGED <<idx, results>>
                   ELSE /\ pc' = pc
                        /\ idx' = j + 1
                        /\ results' = Append(results, ToolResult(b, o.r))
    /\ UNCHANGED <<messages, res, outcome, sent, replies, cycles, proc>>

\* Mutant of PushResults: a bundle without results is not pushed.
PushResultsUnlessEmpty ==
    /\ pc = "EXECUTING_TOOLS"
    /\ NextToolUse(res[1].content, idx) = 0
    /\ messages' = IF results = <<>> THEN messages ELSE Append(messages, Message("user", JArr(results)))
    /\ pc' = "AWAITING_MODEL"
    /\ cycles' = cycles + 1
    /\ UNCHANGED <<res, idx, results, outcome, fs, sent, replies, invoked, proc>>

\* Mutant of PushResults: the oldest turn is dropped when the bundle is pushed.
PushResultsSlidingWindow ==
    /\ pc = "EXECUTING_TOOLS"
    /\ NextToolUse(res[1].content, idx) = 0
    /\ messages' = Append(Tail(messages), Message("user", JArr(results)))
    /\ pc' = "AWAITING_MODEL"
    /\ cycles' = cycles + 1
    /\ UNCHANGED <<res, idx, results, outcome, fs, sent, replies, invoked, proc>>

\* Mutant of PushResults: only the last result is bundled.
PushResultsLastOnly ==
    /\ pc = "EXECUTING_TOOLS"
    /\ NextToolUse(res[1].content, idx) = 0
    /\ messages' = Append(messages, Message("user",
                        JArr(IF results = <<>> THEN <<>> ELSE <<results[Len(results)]>>)))
    /\ pc' = "AWAITING_MODEL"
    /\ cycles' = cycles + 1
    /\ UNCHANGED <<res, idx, results, outcome, fs, sent, replies, invoked, proc>>

\* line 99: the iterator is exhausted; push the bundle and loop.
PushResults ==
    /\ pc = "EXECUTING_TOOLS"
    /\ NextToolUse(res[1].content, idx) = 0
    /\ messages' = Append(messages, Message("user", JArr(results)))
    /\ pc' = "AWAITING_MODEL"
    /\ cycles' = cycles + 1
    /\ UNCHANGED <<res, idx, results, outcome, fs, sent, replies, invoked, proc>>

Next ==
    \/ CallReturnsOk
    \/ CallReturnsErr
    \/ ToolClosure
    \/ PushResults

Spec == Init /\ [][Next]_vars

-----------------------------------------------------------------------------
\* The process around the loop (fn main, lines 103..118)

UsageText ==
    <<"U", "s", "a", "g", "e", ":", " ", "n", "a", "n", "o", " ", "\"", "y", "o", "u", "r", " ", "p", "r", "o", "m", "p", "t", "\"">>
NoKeyText ==
    <<"S", "e", "t", " ", "A", "N", "T", "H", "R", "O", "P", "I", "C", "_", "A", "P", "I", "_", "K", "E", "Y", " ", "o", "r", " ", "A", "N", "T", "H", "R", "O", "P", "I", "C", "_", "A", "U", "T", "H", "_", "T", "O", "K", "E", "N">>
PanicText ==
    <<"p", "a", "n", "i", "c", "k", "e", "d">>

\* Argument lists: none, or the one-word prompt.
ArgLists == {<<>>} \cup {<<prompt>> : prompt \in Prompts}

\* Environments: no key at all, the API key, an empty API key beside an auth
\* token, and the auth token alone.
Envs ==
    { [v \in EnvVars |-> None],
      EnvWithApiKey,
      [v \in EnvVars |-> IF v = "ANTHROPIC_API_KEY" THEN Some(<<>>) ELSE Some(KeyText)],
      [v \in EnvVars |-> IF v = "ANTHROPIC_API_KEY" THEN None ELSE Some(KeyText)] }

\* line 107: the API key if that variable is set (even to the empty string),
\* else the auth token if set, else the empty string.
KeyOf(env) ==
    IF env["ANTHROPIC_API_KEY"] # None THEN env["ANTHROPIC_API_KEY"][1]
    ELSE IF env["ANTHROPIC_AUTH_TOKEN"] # None THEN env["ANTHROPIC_AUTH_TOKEN"][1]
    ELSE <<>>

\* eprintln!(line) then the process ends with the given status.
Ended(p, line, status) ==
    [p EXCEPT !.stderr = Append(p.stderr, line), !.exit = Some(status)]

InitMain ==
    /\ pc = "MAIN"
    /\ messages = <<>>
    /\ res = None
    /\ idx = 1
    /\ results = <<>>
    /\ outcome = None
    /\ fs = [p \in Files |-> IF p = PathG THEN Some(BigText) ELSE Some(<<"a", "b", "a", "b">>)]
    /\ sent = <<>>
    /\ replies = <<>>
    /\ invoked = <<>>
    /\ cycles = 0
    /\ \E args \in ArgLists, env \in Envs : proc = Process(args, env)

\* line 105: no argument: usage on standard error, exit(1).
MainUsage ==
    /\ pc = "MAIN"
    /\ proc.args = <<>>
    /\ proc' = Ended(proc, UsageText, 1)
    /\ pc' = "EXITED"
    /\ UNCHANGED <<messages, res, idx, results, outcome, fs, sent, replies, invoked, cycles>>

\* lines 107..108: no key: message on standard error, exit(1).
MainNoKey ==
    /\ pc = "MAIN"
    /\ proc.args # <<>>
    /\ KeyOf(proc.env) = <<>>
    /\ proc' = Ended(proc, NoKeyText, 1)
    /\ pc' = "EXITED"
    /\ UNCHANGED <<messages, res, idx, results, outcome, fs, sent, replies, invoked, cycles>>

\* line 114: agent is called with the arguments joined by a space.
MainCallsAgent ==
    /\ pc = "MAIN"
    /\ proc.args # <<>>
    /\ KeyOf(proc.env) # <<>>
    /\ messages' = InitialMessages(Join(proc.args, <<" ">>))
    /\ pc' = "AWAITING_MODEL"
    /\ UNCHANGED <<res, idx, results, outcome, fs, sent, replies, invoked, cycles, proc>>

\* line 115: agent returned Ok: the result goes to standard output and main
\* returns, which ends the process with status 0.
MainPrintsResult ==
    /\ pc = "DONE"
    /\ proc' = [proc EXCEPT !.exit = Some(0)]
    /\ pc' = "EXITED"
    /\ UNCHANGED <<messages, res, idx, results, outcome, fs, sent, replies, invoked, cycles>>

\* line 116: agent returned Err: "Error: <e>" goes to standard error and main
\* returns, which ends the process with status 0.
MainPrintsError ==
    /\ pc = "FAILED"
    /\ proc' = Ended(proc, ErrorText(outcome[1][2]), 0)
    /\ pc' = "EXITED"
    /\ UNCHANGED <<messages, res, idx, results, outcome, fs, sent, replies, invoked, cycles>>

\* A panic in agent unwinds through main: the runtime prints the panic
\* message and the process ends with status 101.
MainPanics ==
    /\ pc = "PANICKED"
    /\ proc' = Ended(proc, PanicText, 101)
    /\ pc' = "EXITED"
    /\ UNCHANGED <<messages, res, idx, results, outcome, fs, sent, replies, invoked, cycles>>

NextMain ==
    \/ MainUsage
    \/ MainNoKey
    \/ MainCallsAgent
    \/ CallReturnsOk
    \/ CallReturnsErr
    \/ ToolClosure
    \/ PushResults
    \/ MainPrintsResult
    \/ MainPrintsError
    \/ MainPanics

SpecMain == InitMain /\ [][NextMain]_vars

-----------------------------------------------------------------------------
\* The tool executor on its own: one call of `run` (lines 29..63) on a
\* working directory and arguments drawn from small sets.

\* Longest content of file "f", and longest old_string / new_string / content
\* argument.
MaxLen == 3
MaxPat == 2

Alphabet == {"a", "b"}
Strings(n) == UNION {[1..k -> Alphabet] : k \in 0..n}

\* A text as long as the cap of the bash tool, and one a character longer.
CapText == Rep("a", BashCap)
HugeText == Rep("a", BashCap) \o <<"b">>

\* Working directories: "f" absent or holding a short text while "g" is
\* absent, or "f" absent and "g" holding one of the long texts.
RunFileSystems ==
    {[p \in Files |-> IF p = PathF THEN c ELSE None] :
        c \in {None} \cup {Some(t) : t \in Strings(MaxLen)}}
    \cup {[p \in Files |-> IF p = PathG THEN Some(t) ELSE None] : t \in {CapText, HugeText}}

\* The JSON object that has key k exactly when opts[k] is Some value.
Obj(opts) == [k \in {x \in DOMAIN opts : opts[x] # None} |-> opts[k][1]]

\* A string argument: missing, not a string, or one of the given texts.
ArgChoices(texts) == {None, Some(JNum(7))} \cup {Some(JStr(t)) : t \in texts}

PathChoices == {None} \cup {Some(JStr(p)) : p \in {PathF, Dot}}

EditInputs ==
    {Obj([path |-> p, old_string |-> o, new_string |-> n]) :
        p \in PathChoices, o \in ArgChoices(Strings(MaxPat)), n \in ArgChoices(Strings(MaxPat))}
WriteInputs ==
    {Obj([path |-> p, content |-> c]) : p \in PathChoices, c \in ArgChoices(Strings(MaxPat))}
PathInputs == {Obj([path |-> p]) : p \in PathChoices \cup {Some(JStr(PathG)), Some(JNum(7))}}
BashInputs ==
    {Obj([command |-> c]) : c \in ArgChoices({CmdCatF, CmdCatG, CmdRmF, CmdBadByte, <<>>})}

\* Names the model may ask for that `run` has no case for.
OtherNames == {"nope", "Read_file", "readfile", ""}

RunCalls ==
    {[name |-> "edit_file", input |-> i] : i \in EditInputs}
    \cup {[name |-> "write_file", input |-> i] : i \in WriteInputs}
    \cup {[name |-> n, input |-> i] : n \in {"read_file", "list_dir"} \cup OtherNames, i \in PathInputs}
    \cup {[name |-> "bash", input |-> i] : i \in BashInputs}

InitRun ==
    /\ pc = "RUN_READY"
    /\ fs \in RunFileSystems
    /\ messages = <<>>
    /\ res = None
    /\ idx = 1
    /\ results = <<>>
    /\ outcome = None
    /\ sent = <<>>
    /\ replies = <<>>
    /\ invoked = <<>>
    /\ cycles = 0
    /\ \E prompt \in Prompts : proc = Process(<<prompt>>, EnvWithApiKey)

\* One call of run: `invoked` gets the call, `results` the text returned, and
\* the working directory is the one the call leaves.
RunReturns ==
    /\ pc = "RUN_READY"
    /\ \E c \in RunCalls :
         \E o \in run(c.name, c.input, fs) :
            /\ invoked' = <<c>>
            /\ results' = <<o.r>>
            /\ fs' = o.fs
    /\ pc' = "RUN_RETURNED"
    /\ UNCHANGED <<messages, res, idx, outcome, sent, replies, cycles, proc>>

NextRun == RunReturns

SpecRun == InitRun /\ [][NextRun]_vars

-----------------------------------------------------------------------------
\* Properties

\* The tool_use blocks of an assistant turn, in block order.
ToolUsesOf(turn) == SelectSeq(turn.content[2], IsToolUse)

\* Positions of the result bundles in a transcript: the user turns after the first.
BundleTurns(t) == {i \in 2..Len(t) : t[i].role = "user"}

\* C1: every appended tool-result bundle has exactly one ToolResult per
\* tool_use block of the assistant turn before it and none for the other
\* blocks; the i-th ToolResult carries the id of the i-th tool_use block, so
\* count, ids and relative order are preserved.
C1_OneResultPerInvocation ==
    \A i \in BundleTurns(messages) :
        LET uses == ToolUsesOf(messages[i - 1])
            bundle == messages[i].content[2]
        IN /\ messages[i - 1].role = "assistant"
           /\ Len(bundle) = Len(uses)
           /\ \A k \in 1..Len(bundle) :
                /\ bundle[k].type = "tool_result"
                /\ bundle[k].tool_use_id = uses[k].id

\* A bundle was appended for a turn that holds a text block between two
\* tool_use blocks of different ids.
C1_Witness ==
    /\ pc = "AWAITING_MODEL"
    /\ Len(messages) = 3
    /\ Len(messages[2].content[2]) = 3
    /\ IsText(messages[2].content[2][2])
    /\ Len(messages[3].content[2]) = 2
    /\ messages[3].content[2][1].tool_use_id = Some("t1")
    /\ messages[3].content[2][2].tool_use_id = Some("t2")

\* Number of positions of a sequence of blocks or results whose id is x.
CountId(ids, x) == Cardinality({k \in DOMAIN ids : ids[k] = x})

IdsOfUses(turn) == [j \in DOMAIN ToolUsesOf(turn) |-> ToolUsesOf(turn)[j].id]
IdsOfBundle(turn) == [k \in DOMAIN turn.content[2] |-> turn.content[2][k].tool_use_id]

\* Every assistant turn of transcript t is followed by a bundle, and every
\* ToolResult answers a tool_use block of the assistant turn just before it.
FollowedAndBacked(t) ==
    /\ \A i \in 1..Len(t) :
         t[i].role = "assistant" => i < Len(t) /\ (i + 1) \in BundleTurns(t)
    /\ \A i \in BundleTurns(t) :
         /\ t[i - 1].role = "assistant"
         /\ \A k \in DOMAIN IdsOfBundle(t[i]) :
              CountId(IdsOfUses(t[i - 1]), IdsOfBundle(t[i])[k]) >= 1

\* The correlation invariant as claimed: each tool_use block is answered by
\* exactly one ToolResult with its id.
Correlated(t) ==
    /\ FollowedAndBacked(t)
    /\ \A i \in BundleTurns(t) :
         \A j \in DOMAIN IdsOfUses(t[i - 1]) :
             CountId(IdsOfBundle(t[i]), IdsOfUses(t[i - 1])[j]) = 1

\* C2 as claimed: every transcript sent satisfies the correlation invariant,
\* whatever the responses were, repeated ids included.
C2_CorrelatedWhenSent == \A n \in DOMAIN sent : Correlated(sent[n])

\* C2 (amended): in every transcript sent, every assistant turn is followed by
\* a bundle, every ToolResult carries the id of a tool_use block of the turn
\* just before, and every id is answered by exactly as many ToolResults as
\* there are tool_use blocks carrying it: exactly one when the ids of the
\* turn are distinct (an omitted id counts as one value: null).
C2_AnsweredOncePerBlock ==
    \A n \in DOMAIN sent :
        /\ FollowedAndBacked(sent[n])
        /\ \A i \in BundleTurns(sent[n]) :
             \A j \in DOMAIN IdsOfUses(sent[n][i - 1]) :
                 CountId(IdsOfBundle(sent[n][i]), IdsOfUses(sent[n][i - 1])[j])
                     = CountId(IdsOfUses(sent[n][i - 1]), IdsOfUses(sent[n][i - 1])[j])

\* A request was sent whose transcript holds an assistant turn with two
\* tool_use blocks that repeat one id, answered twice.
C2_Witness ==
    /\ Len(sent) = 2
    /\ Len(IdsOfUses(sent[2][2])) = 2
    /\ IdsOfUses(sent[2][2])[1] # None
    /\ IdsOfUses(sent[2][2])[2] = IdsOfUses(sent[2][2])[1]
    /\ CountId(IdsOfBundle(sent[2][3]), IdsOfUses(sent[2][2])[1]) = 2

\* C3: once `call` has returned an error the loop is FAILED with that error
\* as its outcome, the failed request was the last one, the transcript is the
\* one that request carried (no turn was appended for it), and a failure of
\* the first request leaves the single prompt turn and no tool invoked;
\* nothing changes after FAILED.
C3_TransportErrorFails ==
    /\ [](\A n \in DOMAIN replies :
            IsErr(replies[n]) =>
                /\ n = Len(replies)
                /\ pc = "FAILED"
                /\ outcome = Some(Err(replies[n][2]))
                /\ messages = sent[n]
                /\ (n = 1 => /\ \E p \in Prompts : messages = InitialMessages(p)
                             /\ invoked = <<>>))
    /\ [][pc = "FAILED" => UNCHANGED vars]_vars

\* The second request failed after a tool had been invoked for the first response.
C3_Witness ==
    /\ pc = "FAILED"
    /\ Len(sent) = 2
    /\ invoked # <<>>

\* C4: a tool that was run never aborts the loop: whatever its name,
\* arguments and result text, the step that runs it records one textual
\* ToolResult for it and stays in EXECUTING_TOOLS, on the way to the bundle
\* and the next request.
C4_ToolRunNeverAborts ==
    [][invoked' # invoked =>
          /\ pc' = "EXECUTING_TOOLS"
          /\ Len(results') = Len(results) + 1
          /\ results'[Len(results')].type = "tool_result"]_vars

\* A decoded response with a tool_use block that has no name or no input.
Malformed(r) ==
    \E i \in DOMAIN r.content :
        IsToolUse(r.content[i]) /\ (r.content[i].name = None \/ r.content[i].input = None)

\* C5: a response that does not decode, or decodes with a tool_use block
\* lacking name or input, is the last one (no retry) and leaves the loop
\* FAILED with an error message as outcome: no crash, no tool invoked for it.
C5_MalformedResponseFails ==
    \A n \in DOMAIN replies :
        (IsErr(replies[n]) \/ Malformed(replies[n][2])) =>
            /\ n = Len(replies)
            /\ pc = "FAILED"
            /\ outcome # None /\ IsErr(outcome[1])

\* The concatenation, in block order, of the texts of the text blocks.
RECURSIVE TextOfTextBlocks(_)
TextOfTextBlocks(content) ==
    IF content = <<>> THEN <<>>
    ELSE (IF Head(content).type = "text" /\ Head(content).text # None
          THEN Head(content).text[1] ELSE <<>>) \o TextOfTextBlocks(Tail(content))

\* C6: at DONE the returned text is the concatenation, in block order and
\* without separator, of the text blocks of the last assistant turn; its
\* tool_use blocks contribute nothing.
C6_FinalOutputIsTextBlocks ==
    pc = "DONE" =>
        /\ messages[Len(messages)].role = "assistant"
        /\ outcome = Some(Ok(TextOfTextBlocks(messages[Len(messages)].content[2])))

\* DONE on a turn with a text block followed by a tool_use block that carries
\* a text field of its own: only the text block is returned.
C6_Witness ==
    /\ pc = "DONE"
    /\ Len(messages[Len(messages)].content[2]) = 2
    /\ messages[Len(messages)].content[2][1].type = "text"
    /\ messages[Len(messages)].content[2][2].type = "tool_use"
    /\ messages[Len(messages)].content[2][2].text # None
    /\ outcome = Some(Ok(TextA))

\* C7: the step that receives a response goes to EXECUTING_TOOLS exactly when
\* stop_reason is "tool_use" and to DONE otherwise, without invoking a tool;
\* nothing is invoked after DONE; DONE on the first response means one
\* request and no tool invoked.
C7_StopReasonDecides ==
    /\ [][/\ (Len(replies') > Len(replies) /\ IsOk(replies'[Len(replies')])) =>
               /\ (pc' = "EXECUTING_TOOLS") <=> (replies'[Len(replies')][2].stop_reason = "tool_use")
               /\ (replies'[Len(replies')][2].stop_reason # "tool_use") => pc' = "DONE"
               /\ invoked' = invoked
          /\ pc = "DONE" => UNCHANGED vars]_vars
    /\ []((pc = "DONE" /\ Len(replies) = 1) => (Len(sent) = 1 /\ invoked = <<>>))

\* DONE on a first response with stop_reason "max_tokens" that holds a
\* well-formed tool_use block: one request, no tool invoked.
C7_Witness ==
    /\ pc = "DONE"
    /\ Len(sent) = 1
    /\ replies[1][2].stop_reason = "max_tokens"
    /\ \E i \in DOMAIN replies[1][2].content :
          /\ IsToolUse(replies[1][2].content[i])
          /\ replies[1][2].content[i].name = Some("write_file")
    /\ invoked = <<>>

IsPrefix(s, t) == Len(s) <= Len(t) /\ SubSeq(t, 1, Len(s)) = s

\* C8: the transcript only grows: each request carries a transcript of which
\* the previous request's transcript is a proper prefix, the current
\* transcript extends the last one sent, and every request starts with the
\* initial user prompt turn.
C8_AppendOnly ==
    /\ \A n \in 1..(Len(sent) - 1) :
         IsPrefix(sent[n], sent[n + 1]) /\ Len(sent[n]) < Len(sent[n + 1])
    /\ sent # <<>> => IsPrefix(sent[Len(sent)], messages)
    /\ \A n \in DOMAIN sent :
         \E p \in Prompts : IsPrefix(InitialMessages(p), sent[n])

\* Two requests were sent and the second response has been appended.
C8_Witness ==
    /\ Len(sent) = 2
    /\ Len(messages) = 4

\* Number of responses received whose stop_reason is "tool_use".
ToolUseReplies ==
    Cardinality({n \in DOMAIN replies : IsOk(replies[n]) /\ replies[n][2].stop_reason = "tool_use"})

\* C9: a run that ends in DONE after k "tool_use" responses made exactly k
\* tool cycles and k + 1 requests, and its transcript is the prompt, then k
\* pairs (assistant turn of the i-th response, bundle), then the assistant
\* turn of the final response.
C9_RunShape ==
    pc = "DONE" =>
        LET k == ToolUseReplies
        IN /\ cycles = k
           /\ Len(sent) = k + 1
           /\ Len(replies) = k + 1
           /\ Len(messages) = 2 * k + 2
           /\ \E p \in Prompts : messages[1] = Message("user", JStr(p))
           /\ \A i \in 1..k :
                /\ replies[i][2].stop_reason = "tool_use"
                /\ messages[2 * i] = Message("assistant", JArr(replies[i][2].content))
                /\ messages[2 * i + 1].role = "user"
                /\ messages[2 * i + 1].content[1] = "arr"
           /\ replies[k + 1][2].stop_reason # "tool_use"
           /\ messages[2 * k + 2] = Message("assistant", JArr(replies[k + 1][2].content))

\* DONE after one tool cycle.
C9_Witness ==
    /\ pc = "DONE"
    /\ cycles = 1
    /\ Len(sent) = 2

\* Names of the tools `run` has a case for.
RunCases == {"read_file", "write_file", "edit_file", "bash", "list_dir"}

\* C10: when the loop comes to a tool_use block naming a tool that `run` has
\* no case for, nothing is done to the files, the block's ToolResult is the
\* fixed "Unknown tool" text, and the loop goes on with the rest of the turn
\* instead of aborting.
C10_UnknownToolContinues ==
    [][(/\ pc = "EXECUTING_TOOLS"
        /\ NextToolUse(res[1].content, idx) # 0
        /\ res[1].content[NextToolUse(res[1].content, idx)].name # None
        /\ res[1].content[NextToolUse(res[1].content, idx)].name[1] \notin RunCases) =>
           /\ pc' = "EXECUTING_TOOLS"
           /\ fs' = fs
           /\ results' = Append(results,
                  [type |-> "tool_result",
                   tool_use_id |-> res[1].content[NextToolUse(res[1].content, idx)].id,
                   content |-> UnknownTool])]_vars

\* The configuration main requires is missing: no argument, or no key.
MissingConfig == proc.args = <<>> \/ KeyOf(proc.env) = <<>>

\* C11: when the process has ended, its status is non-zero and an error
\* message was printed if the configuration was missing or the loop ended
\* FAILED, and its status is zero only if the loop ended in DONE.
C11_ExitStatus ==
    proc.exit # None =>
        /\ MissingConfig => (proc.exit[1] # 0 /\ proc.stderr # <<>>)
        /\ (outcome # None /\ IsErr(outcome[1])) => (proc.exit[1] # 0 /\ proc.stderr # <<>>)
        /\ proc.exit[1] = 0 => (outcome # None /\ IsOk(outcome[1]))

-----------------------------------------------------------------------------
\* Properties of the tool executor (SpecRun)

\* pat occurs in s at position i.
OccursAt(s, pat, i) ==
    /\ i \in 1..(Len(s) - Len(pat) + 1)
    /\ SubSeq(s, i, i + Len(pat) - 1) = pat
Occurs(s, pat) == \E i \in 1..(Len(s) + 1) : OccursAt(s, pat, i)

\* s with the occurrence of pat at position i replaced by new.
ReplacedAt(s, pat, i, new) ==
    SubSeq(s, 1, i - 1) \o new \o SubSeq(s, i + Len(pat), Len(s))

IsStr(input, key) == key \in DOMAIN input /\ input[key][1] = "str"

\* The step is a call of edit_file naming an existing regular file by a
\* string path.
EditsReadableFile ==
    /\ pc = "RUN_READY" /\ pc' = "RUN_RETURNED"
    /\ invoked'[1].name = "edit_file"
    /\ IsStr(invoked'[1].input, "path")
    /\ invoked'[1].input.path[2] \in Files
    /\ fs[invoked'[1].input.path[2]] # None

\* The old_string and new_string the call gives, both strings.
GivesOldAndNew ==
    /\ IsStr(invoked'[1].input, "old_string")
    /\ IsStr(invoked'[1].input, "new_string")

\* C12: edit_file on a file whose content contains old_string one or more
\* times replaces the first (leftmost) occurrence by new_string, leaves every
\* other occurrence and the rest of the content as they were, and returns the
\* success marker.
C12_EditReplacesFirstOnly ==
    [][(EditsReadableFile /\ GivesOldAndNew) =>
        LET path == invoked'[1].input.path[2]
            old == invoked'[1].input.old_string[2]
            new == invoked'[1].input.new_string[2]
            content == fs[path][1]
        IN Occurs(content, old) =>
            /\ results' = <<OkMarker>>
            /\ \E i \in 1..(Len(content) + 1) :
                 /\ OccursAt(content, old, i)
                 /\ \A j \in 1..(i - 1) : ~OccursAt(content, old, j)
                 /\ fs'[path] = Some(ReplacedAt(content, old, i, new))
            /\ \A q \in Files \ {path} : fs'[q] = fs[q]]_vars

\* An edit of "aba" with old_string "a" and new_string "b" has left "bba":
\* the second "a" is still there.
C12_Witness ==
    /\ pc = "RUN_RETURNED"
    /\ invoked[1].name = "edit_file"
    /\ invoked[1].input = [path |-> JStr(PathF), old_string |-> JStr(<<"a">>), new_string |-> JStr(<<"b">>)]
    /\ fs[PathF] = Some(<<"b", "b", "a">>)
    /\ results = <<OkMarker>>

\* C13: edit_file on a readable file whose content does not contain
\* old_string leaves every file as it was and returns "old_string not found",
\* a text that does not begin like the report of an I/O error.
C13_EditNotFoundLeavesFile ==
    [][(EditsReadableFile /\ IsStr(invoked'[1].input, "old_string")) =>
        LET path == invoked'[1].input.path[2]
            old == invoked'[1].input.old_string[2]
        IN ~Occurs(fs[path][1], old) =>
            /\ fs' = fs
            /\ results' = <<NotFoundMarker>>
            /\ SubSeq(results'[1], 1, Len(ErrorPrefix)) # ErrorPrefix]_vars

\* An edit of "ab" with old_string "ba" has returned the not-found text.
C13_Witness ==
    /\ pc = "RUN_RETURNED"
    /\ invoked[1].name = "edit_file"
    /\ IsStr(invoked[1].input, "path") /\ invoked[1].input.path = JStr(PathF)
    /\ IsStr(invoked[1].input, "old_string") /\ invoked[1].input.old_string = JStr(<<"b", "a">>)
    /\ fs[PathF] = Some(<<"a", "b">>)
    /\ results = <<NotFoundMarker>>

\* The step is a call of the bash tool.
BashReturns ==
    /\ pc = "RUN_READY" /\ pc' = "RUN_RETURNED"
    /\ invoked'[1].name = "bash"

\* What the command of the call writes to standard output when run in the
\* working directory the step starts from; a missing command is "".
StdoutOfCall ==
    LET input == invoked'[1].input
    IN Sh(fs, IF IsStr(input, "command") THEN input.command[2] ELSE <<>>).stdout

C15_RegistryMatchesExecutor ==
    /\ Len(TOOLS) = 5
    /\ \A i, j \in DOMAIN TOOLS : TOOLS[i].name = TOOLS[j].name => i = j
    /\ {TOOLS[i].name : i \in DOMAIN TOOLS} = {"read_file", "write_file", "edit_file", "bash", "list_dir"}
    /\ [][(pc = "RUN_READY" /\ pc' = "RUN_RETURNED") =>
            IF \E i \in DOMAIN TOOLS : TOOLS[i].name = invoked'[1].name
            THEN results'[1] # UnknownTool
            ELSE results'[1] = UnknownTool /\ fs' = fs]_vars

\* list_dir, the last entry of the registry, has listed a directory holding "f".
C15_Witness ==
    /\ pc = "RUN_RETURNED"
    /\ invoked[1].name = TOOLS[5].name
    /\ fs[PathF] # None
    /\ results = <<<<"-", " ", "f">>>>

\* The step is a call of edit_file, whatever its arguments.
EditReturns ==
    /\ pc = "RUN_READY" /\ pc' = "RUN_RETURNED"
    /\ invoked'[1].name = "edit_file"

\* The old_string argument of the call is missing or is the empty string.
OldMissingOrEmpty ==
    \/ "old_string" \notin DOMAIN invoked'[1].input
    \/ invoked'[1].input.old_string = JStr(<<>>)

\* C20: edit_file changes a file only when it is the file named by the call
\* and old_string, taken as the model gave it, occurs in its content; when
\* old_string is missing or empty and the file can be read, the call never
\* answers "old_string not found": it succeeds and the file becomes new_string
\* (nothing, when that is missing) followed by the whole former content.
C20_EditMatchesLiterally ==
    [][/\ (EditReturns /\ fs' # fs) =>
           /\ EditsReadableFile
           /\ IsStr(invoked'[1].input, "old_string") =>
                Occurs(fs[invoked'[1].input.path[2]][1], invoked'[1].input.old_string[2])
           /\ \A q \in Files \ {invoked'[1].input.path[2]} : fs'[q] = fs[q]
       /\ (EditsReadableFile /\ OldMissingOrEmpty) =>
           LET input == invoked'[1].input
               new == IF IsStr(input, "new_string") THEN input.new_string[2] ELSE <<>>
           IN /\ results' = <<OkMarker>>
              /\ fs' = [fs EXCEPT ![input.path[2]] = Some(new \o fs[input.path[2]][1])]]_vars

\* An edit without old_string and with new_string "b" has turned "ab" into
\* "bab".
C20_Witness ==
    /\ pc = "RUN_RETURNED"
    /\ invoked[1].name = "edit_file"
    /\ invoked[1].input = [path |-> JStr(PathF), new_string |-> JStr(<<"b">>)]
    /\ fs[PathF] = Some(<<"b", "a", "b">>)
    /\ results = <<OkMarker>>

-----------------------------------------------------------------------------
\* Properties of the loop (Spec), continued

\* Number of tool_use blocks among the first n blocks of content.
ToolUsesBefore(content, n) ==
    Cardinality({k \in 1..n : k <= Len(content) /\ IsToolUse(content[k])})

\* The two calls of the example: write "ab" to f, then replace "ab" by "b" in f.
WriteAbToF == [name |-> "write_file", input |-> [path |-> JStr(PathF), content |-> JStr(TextAB)]]
EditAbToBInF ==
    [name |-> "edit_file",
     input |-> [path |-> JStr(PathF), old_string |-> JStr(TextAB), new_string |-> JStr(TextB)]]

\* The last two invocations are the example's, both made in the current turn.
WroteThenEditedThisTurn ==
    /\ pc = "EXECUTING_TOOLS"
    /\ Len(results) >= 2
    /\ Len(invoked) >= 2
    /\ invoked[Len(invoked) - 1] = WriteAbToF
    /\ invoked[Len(invoked)] = EditAbToBInF

\* C16: within one EXECUTING_TOOLS step the tools run one at a time in block
\* order, each on the files the one before it left, and no request is sent
\* until all of them have run: (1) while the step lasts, the results so far
\* are those of the tool_use blocks before idx; (2) a step that invokes a tool
\* invokes the first tool_use block that has not run yet, on the current
\* files, and sends nothing; (3) requests are sent from AWAITING_MODEL only,
\* and the step returns there only with a result for every tool_use block;
\* (4) an edit of f that follows a write of "ab" to f in the same turn edits
\* "ab": it succeeds and leaves "b", whatever f held before the turn.
C16_SequentialInBlockOrder ==
    /\ [](pc = "EXECUTING_TOOLS" => Len(results) = ToolUsesBefore(res[1].content, idx - 1))
    /\ [][(pc = "EXECUTING_TOOLS" /\ invoked' # invoked) =>
            \E j \in idx..Len(res[1].content) :
                /\ IsToolUse(res[1].content[j])
                /\ \A k \in idx..(j - 1) : ~IsToolUse(res[1].content[k])
                /\ invoked' = Append(invoked, [name |-> res[1].content[j].name[1],
                                               input |-> res[1].content[j].input[1]])
                /\ fs' \in {o.fs : o \in run(res[1].content[j].name[1], res[1].content[j].input[1], fs)}
                /\ pc' = "EXECUTING_TOOLS" => idx' = j + 1
                /\ sent' = sent]_vars
    /\ [][sent' # sent => pc = "AWAITING_MODEL"]_vars
    /\ [][(pc = "EXECUTING_TOOLS" /\ pc' = "AWAITING_MODEL") =>
            Len(results) = ToolUsesBefore(res[1].content, Len(res[1].content))]_vars
    /\ [](WroteThenEditedThisTurn =>
            /\ results[Len(results)].content = OkMarker
            /\ fs[PathF] = Some(TextB))

\* The example has happened: f held "abab" before the turn, the turn wrote
\* "ab" to it and then edited it, and f holds "b".
C16_Witness ==
    /\ WroteThenEditedThisTurn
    /\ Len(sent) = 1
    /\ Len(results) = 2
    /\ fs[PathF] = Some(TextB)

\* Positions of the loop at which it goes on or has returned.
LoopPositions == {"AWAITING_MODEL", "EXECUTING_TOOLS", "DONE", "FAILED"}

\* C17: the loop ends in DONE or FAILED and nowhere else: it is always at one
\* of its four positions, leaves AWAITING_MODEL only for EXECUTING_TOOLS (a
\* tool_use response), DONE (any other response) or FAILED (a failed
\* request), and after a tool_use response goes through its tools and back to
\* AWAITING_MODEL, never ending on its own.
C17_EndsOnlyInDoneOrFailed ==
    /\ [](pc \in LoopPositions)
    /\ [][pc = "AWAITING_MODEL" =>
            pc' = IF IsErr(replies'[Len(replies')]) THEN "FAILED"
                  ELSE IF replies'[Len(replies')][2].stop_reason = "tool_use" THEN "EXECUTING_TOOLS"
                  ELSE "DONE"]_vars
    /\ [][pc = "EXECUTING_TOOLS" => pc' \in {"EXECUTING_TOOLS", "AWAITING_MODEL"}]_vars
    /\ [][(pc = "DONE" \/ pc = "FAILED") => UNCHANGED vars]_vars

\* Every turn at an odd position is a user turn, every other an assistant turn.
Alternates(t) ==
    \A i \in DOMAIN t : t[i].role = IF i % 2 = 1 THEN "user" ELSE "assistant"

\* C18: the transcript always alternates user and assistant turns, starting
\* with the user turn of the prompt; every transcript that was sent with a
\* request ends with a user turn, and the transcript at DONE ends with an
\* assistant turn.
C18_RolesAlternate ==
    /\ messages # <<>>
    /\ Alternates(messages)
    /\ \A k \in DOMAIN sent : sent[k][Len(sent[k])].role = "user"
    /\ pc = "DONE" => messages[Len(messages)].role = "assistant"

\* The loop is DONE after a tool turn whose bundle is empty: four turns, two
\* requests.
C18_Witness ==
    /\ pc = "DONE"
    /\ Len(sent) = 2
    /\ Len(messages) = 4
    /\ messages[3] = Message("user", JArr(<<>>))

\* C19: the step that leaves EXECUTING_TOOLS appends exactly one user turn,
\* the bundle, and goes back to AWAITING_MODEL; when the response holds no
\* tool_use block no tool was invoked for it and the bundle is empty.
C19_StepAppendsOneUserTurn ==
    [][(pc = "EXECUTING_TOOLS" /\ pc' # "EXECUTING_TOOLS") =>
        /\ pc' = "AWAITING_MODEL"
        /\ Len(messages') = Len(messages) + 1
        /\ SubSeq(messages', 1, Len(messages)) = messages
        /\ messages'[Len(messages')].role = "user"
        /\ ToolUsesBefore(res[1].content, Len(res[1].content)) = 0 =>
              /\ messages'[Len(messages')].content = JArr(<<>>)
              /\ invoked' = invoked]_vars
====
